---- MODULE Spec2Model ----
(***************************************************************************)
(* Two browser demos of the repository, modelled as event-driven state     *)
(* machines.                                                               *)
(*                                                                         *)
(*  - The XR session controller (class App): capability probe, session     *)
(*    request on click, session start-up, the per-frame callback, the      *)
(*    placement hit test and the session 'end' handler.                    *)
(*  - The scene animation controller (script.js): the resize handler, the  *)
(*    pointer and scroll handlers and the per-frame update of the sphere.  *)
(*                                                                         *)
(* Every handler runs to completion on the browser's single thread, so a   *)
(* handler (or the part of an async function between two awaits) is one    *)
(* action.  The platform (navigator.xr, XRSession, the window) is the      *)
(* environment: it settles promises and dispatches events.                 *)
(***************************************************************************)
EXTENDS Integers, Sequences, FiniteSets

\* ---------------------------------------------------------------- bounds
MaxSessions == 2   \* sessions the platform grants in one run
MaxHitTests == 2   \* placement hit tests in flight at once
MaxHits     == 2   \* entries of one hit-test result list
MaxViews    == 2   \* views of one viewer pose
MaxPending  == 1   \* session requests waiting to be rejected
MaxDim      == 3   \* largest viewport width and height
MaxDpr      == 3   \* largest device pixel ratio
MaxClient   == 2   \* largest clientX and clientY of a pointer event
MaxScroll   == 1   \* largest window.scrollY
MaxTime     == 2   \* largest elapsed time the clock reports, in seconds
MaxTicks    == 2   \* per-frame updates after the one at load

Sessions == 1..MaxSessions
\* Positions are data the controller copies and never compares: two values
\* tell a copied position from any other.
Pos      == {1, 2}   \* positions a hit test reports
Origin   == 0        \* the position of a new object
Cams     == {1}      \* camera positions the viewer pose reports

VARIABLES
  hasXR,        \* navigator.xr && XRSession.prototype.requestHitTestSource
  support,      \* what the platform answers about "immersive-ar"
  probe,        \* the isSessionSupported promise
  listener,     \* the click listener on #enter-ar is registered
  classes,      \* document.body.classList
  pendingOk,    \* session requests the platform may still grant (0 or 1)
  pendingBad,   \* session requests the platform is about to reject
  session,      \* this.session (0: undefined)
  sessions,     \* number of sessions granted so far; they are 1..sessions
  ended,        \* the sessions that have ended
  awaiting,     \* sessions whose onSessionStarted awaits the reference space
  frameOfRef,   \* this.frameOfRef: the session whose space it is (0: undefined)
  renderer,     \* this.renderer: the session it was created in (0: undefined)
  vrSession,    \* renderer.vr's session binding, per renderer (0: null)
  rafPending,   \* pending requestAnimationFrame callbacks, per session
  stabilized,   \* this.stabilized
  fired,        \* per session, how often the stabilized transition ran
  camPos,       \* position part of this.camera.matrix
  modelPos,     \* this.model.position
  modelRot,     \* this.model orientation
  inScene,      \* this.model is a child of this.scene
  hitTests,     \* placement hit tests in flight, in the order of issue
  inputPresent, \* session.inputSources holds a "screen" input source
  resolvedPos,  \* first hit of the last non-empty result (Origin: none yet)
  innerWidth,   \* window.innerWidth
  innerHeight,  \* window.innerHeight
  devicePixelRatio,  \* window.devicePixelRatio
  sizes,        \* the sizes object of script.js
  cameraAspect, \* camera.aspect
  rendererSize, \* the size given to renderer.setSize
  rendererPixelRatio, \* the ratio given to renderer.setPixelRatio
  anim,         \* the animation's state, a record of
                \*   windowX, windowY: half the window's size at load
                \*   mouseX, mouseY: the pointer's offset from there
                \*   targetX, targetY: mouseX * 0.001, mouseY * 0.001 as of
                \*     the last per-frame update
                \*   scrollY: window.scrollY
                \*   rotX, rotY: sphere.rotation.x, .y
                \*   posY, posZ: sphere.position.y, .z
                \*   clock: the elapsed time read by the last update
                \*   ticks: per-frame updates run since the script's own
  ev            \* the handler that ran last, with its inputs and outcome

xrVars == <<hasXR, support, probe, listener, classes, pendingOk, pendingBad,
            session, sessions, ended, awaiting, frameOfRef, renderer,
            vrSession, rafPending, stabilized, fired, camPos, modelPos,
            modelRot, inScene, hitTests, inputPresent, resolvedPos>>
placeVars == <<inputPresent, resolvedPos>>
sceneVars == <<innerWidth, innerHeight, devicePixelRatio, sizes, cameraAspect,
               rendererSize, rendererPixelRatio>>
animVars == <<anim>>
vars == <<xrVars, sceneVars, animVars, ev>>

\* ------------------------------------------------------- the event record
\*   name   the handler: "probe", "click", "granted", "rejected", "end",
\*          "refspace", "norefspace", "frame", "hits", "inputstart",
\*          "inputend", "viewport", "resize", "mousemove", "scroll", "tick"
\*   sess   the session of the event
\*   pose   frame: the viewer pose was non-null
\*   vis    frame: line 214 was reached and read reticle.visible = true
\*   fail   frame: the step that threw
\*   threw  the handler ended with an exception or a rejected promise
\*   raf    the session on which the handler called requestAnimationFrame
\*   ok     hits: requestHitTest resolved (it did not reject)
\*   first  hits: position of the entry at index 0 of the list (Origin: none)
\*   last   hits: position of the last entry of the list (Origin: none)
\*   pre    end: the class list before the handler ran
\*   views  frame, when the touches are followed: the number of views in
\*          which processXRInput ran with the touch's input source there
\*          and a pose for it
\*   idx    hits that wrote the position, when the order of settling is
\*          followed: the place of the hit test among those in flight
\*   late   hits that wrote the position, when the order of settling is
\*          followed: the step before settled a hit test issued later than
\*          this one, which wrote the position too
NoEv == [name |-> "init", sess |-> 0, pose |-> FALSE, vis |-> FALSE,
         fail |-> "none", threw |-> FALSE, raf |-> 0, ok |-> FALSE,
         first |-> Origin, last |-> Origin, pre |-> {},
         views |-> 0, idx |-> 0, late |-> FALSE]

\* The event e is a hit test that settled with hits: placeModel went on to
\* write the model's position.
Placed(e) == e.name = "hits" /\ e.ok /\ e.first # Origin

\* ------------------------------------------------------------ XR: helpers
Active(s) == s \in 1..sessions /\ s \notin ended

AnyActive == \E s \in 1..sessions : s \notin ended

\* onNoXRDevice: document.body.classList.add("unsupported")
onNoXRDevice(cl) == cl \cup {"unsupported"}

\* XRSession.requestAnimationFrame throws InvalidStateError on an ended session
TickThrows == session \in ended

\* tick(): this.rafId = this.session.requestAnimationFrame(this.onXRFrame)
tick(raf) == IF TickThrows THEN raf ELSE [raf EXCEPT ![session] = @ + 1]

\* ------------------------------------------------------------- XR: init
\* App.init, run to completion by the constructor
InitApp(hx, sup) ==
  /\ hasXR = hx
  /\ support = sup
  /\ probe = IF hx THEN "pending" ELSE "none"
  /\ listener = hx
  /\ classes = IF hx THEN {} ELSE onNoXRDevice({})
  /\ pendingOk = 0
  /\ pendingBad = 0
  /\ session = 0
  /\ sessions = 0
  /\ ended = {}
  /\ awaiting = {}
  /\ frameOfRef = 0
  /\ renderer = 0
  /\ vrSession = [r \in Sessions |-> 0]
  /\ rafPending = [s \in Sessions |-> 0]
  /\ stabilized = FALSE
  /\ fired = [s \in Sessions |-> 0]
  /\ camPos = Origin
  /\ modelPos = Origin
  /\ modelRot = [from |-> Origin, to |-> Origin]
  /\ inScene = FALSE
  /\ hitTests = <<>>
  /\ inputPresent = FALSE
  /\ resolvedPos = Origin


\* the outcome of isSessionSupported("immersive-ar") on this platform
ProbeOutcome(sup) ==
  CASE sup = "yes"   -> "true"
    [] sup = "no"    -> "false"
    [] sup = "error" -> "rejected"

\* init's .then(onFulfilled, onRejected): only a rejection reaches onNoXRDevice
ProbeClasses(outcome, cl) ==
  IF outcome = "rejected" THEN onNoXRDevice(cl) ELSE cl

\* The isSessionSupported promise settles and init's continuation runs.
ProbeSettles ==
  /\ probe = "pending"
  /\ probe' = ProbeOutcome(support)
  /\ classes' = ProbeClasses(probe', classes)
  /\ ev' = [NoEv EXCEPT !.name = "probe"]
  /\ UNCHANGED <<hasXR, support, listener, pendingOk, pendingBad, session,
                 sessions, ended, awaiting, frameOfRef, renderer, vrSession,
                 rafPending, stabilized, fired, camPos, modelPos, modelRot,
                 inScene, hitTests>>
  /\ UNCHANGED placeVars
  /\ UNCHANGED <<sceneVars, animVars>>

\* ------------------------------------------------- XR: session request
\* The platform grants an immersive session only when it supports the mode
\* and no other immersive session is active or pending.
Grantable == support = "yes" /\ ~AnyActive /\ pendingOk = 0

\* onEnterAR: a click on #enter-ar requests a session.
onEnterAR ==
  /\ listener
  /\ IF Grantable
       THEN /\ sessions < MaxSessions
            /\ pendingOk' = 1
            /\ UNCHANGED pendingBad
       ELSE /\ pendingBad < MaxPending
            /\ pendingBad' = pendingBad + 1
            /\ UNCHANGED pendingOk
  /\ ev' = [NoEv EXCEPT !.name = "click"]
  /\ UNCHANGED <<hasXR, support, probe, listener, classes, session, sessions,
                 ended, awaiting, frameOfRef, renderer, vrSession, rafPending,
                 stabilized, fired, camPos, modelPos, modelRot, inScene,
                 hitTests>>
  /\ UNCHANGED placeVars
  /\ UNCHANGED <<sceneVars, animVars>>

\* onSessionStarted up to its await: document.body.classList.add("ar")
ClassesAfterStart(cl) == cl \cup {"ar"}

\* requestSession resolves: the .then callback and onSessionStarted up to
\* the await of requestReferenceSpace.
SessionGranted ==
  /\ pendingOk = 1
  /\ LET n == sessions + 1 IN
       /\ pendingOk' = 0
       /\ sessions' = n
       /\ session' = n
       /\ classes' = ClassesAfterStart(classes)
       /\ renderer' = n
       /\ vrSession' = [vrSession EXCEPT ![n] = n]
       /\ awaiting' = awaiting \cup {n}
       /\ camPos' = Origin
       /\ modelPos' = Origin
       /\ modelRot' = [from |-> Origin, to |-> Origin]
       /\ inScene' = FALSE
       /\ ev' = [NoEv EXCEPT !.name = "granted", !.sess = n]
  /\ UNCHANGED <<hasXR, support, probe, listener, pendingBad, ended,
                 frameOfRef, rafPending, stabilized, fired, hitTests>>
  /\ resolvedPos' = Origin
  /\ UNCHANGED inputPresent
  /\ UNCHANGED <<sceneVars, animVars>>

\* requestSession's .catch callback
onRequestRejected ==
  /\ classes' = onNoXRDevice(classes)
  /\ ev' = [NoEv EXCEPT !.name = "rejected"]
  /\ UNCHANGED <<hasXR, support, probe, listener, session, sessions, ended,
                 awaiting, frameOfRef, renderer, vrSession, rafPending,
                 stabilized, fired, camPos, modelPos, modelRot, inScene,
                 hitTests>>
  /\ UNCHANGED placeVars
  /\ UNCHANGED <<sceneVars, animVars>>

\* A grantable request fails all the same (the user denies it).
SessionDenied ==
  /\ pendingOk = 1
  /\ pendingOk' = 0
  /\ UNCHANGED pendingBad
  /\ onRequestRejected

\* A request the platform could not grant is rejected.
SessionRefused ==
  /\ pendingBad > 0
  /\ pendingBad' = pendingBad - 1
  /\ UNCHANGED pendingOk
  /\ onRequestRejected

\* --------------------------------------------------- XR: session end
\* A mutant of ClassesAfterEnd: only 'ar' is removed.
ClassesAfterEndKeepStabilized(cl) == cl \ {"ar"}

\* onXRSessionEnded: classList.remove("ar"); classList.remove("stabilized")
ClassesAfterEnd(cl) == (cl \ {"ar"}) \ {"stabilized"}

\* The session's 'end' event: onXRSessionEnded.  The platform runs no frame
\* callback of an ended session: its pending requests are dropped.
SessionEnd ==
  \E s \in Sessions :
    /\ Active(s)
    /\ ended' = ended \cup {s}
    /\ classes' = ClassesAfterEnd(classes)
    /\ IF renderer # 0
         THEN /\ vrSession' = [vrSession EXCEPT ![renderer] = 0]
              /\ stabilized' = FALSE
         ELSE UNCHANGED <<vrSession, stabilized>>
    /\ ev' = [NoEv EXCEPT !.name = "end", !.sess = s, !.pre = classes]
    /\ rafPending' = [rafPending EXCEPT ![s] = 0]
    /\ UNCHANGED <<hasXR, support, probe, listener, pendingOk, pendingBad,
                   session, sessions, awaiting, frameOfRef, renderer, fired,
                   camPos, modelPos, modelRot, inScene, hitTests>>
    /\ inputPresent' = FALSE
    /\ UNCHANGED resolvedPos
    /\ UNCHANGED <<sceneVars, animVars>>

\* ------------------------------------------- XR: reference space, tick
\* requestReferenceSpace("local") resolves: the rest of onSessionStarted.
\* The platform may settle it after the session has ended.
RefSpaceResolved ==
  \E s \in awaiting :
    /\ awaiting' = awaiting \ {s}
    /\ frameOfRef' = s
    /\ rafPending' = tick(rafPending)
    /\ ev' = [NoEv EXCEPT !.name = "refspace", !.sess = s, !.raf = session,
                          !.threw = TickThrows]
    /\ UNCHANGED <<hasXR, support, probe, listener, classes, pendingOk,
                   pendingBad, session, sessions, ended, renderer, vrSession,
                   stabilized, fired, camPos, modelPos, modelRot, inScene,
                   hitTests>>
    /\ UNCHANGED placeVars
    /\ UNCHANGED <<sceneVars, animVars>>

\* requestReferenceSpace rejects on a session that has ended: the await
\* throws and onSessionStarted never reaches tick().
RefSpaceRejected ==
  \E s \in awaiting :
    /\ s \in ended
    /\ awaiting' = awaiting \ {s}
    /\ ev' = [NoEv EXCEPT !.name = "norefspace", !.sess = s, !.threw = TRUE]
    /\ UNCHANGED <<hasXR, support, probe, listener, classes, pendingOk,
                   pendingBad, session, sessions, ended, frameOfRef, renderer,
                   vrSession, rafPending, stabilized, fired, camPos, modelPos,
                   modelRot, inScene, hitTests>>
    /\ UNCHANGED placeVars
    /\ UNCHANGED <<sceneVars, animVars>>


\* ------------------------------------------------ XR: per-frame callback
\* The steps of onXRFrame at which the platform or the renderer may throw.
FailSteps == {"none", "pose", "camera", "reticle", "input", "render"}

\* A mutant of TickReached: the next frame is requested after the null check.
TickAfterNullCheck(poseThrew, pose, fail) == ~poseThrew /\ pose

\* A mutant of TickReached: the next frame is requested after the rendering.
TickAtEnd(poseThrew, pose, fail) == ~poseThrew /\ (~pose \/ fail = "none")

\* Whether onXRFrame reaches this.tick(): it follows the pose lookup and
\* precedes the null check and all of the frame's other work.
TickReached(poseThrew, pose, fail) == ~poseThrew

\* A mutant of ShouldStabilize: the flag is not consulted.
StabilizeUnguarded(vis, stab) == vis

\* if (this.reticle.visible && !this.stabilized)
ShouldStabilize(vis, stab) == vis /\ ~stab

\* A mutant of processXRInput: the input source's pose is not tested.
processXRInputAnyPose(present, resolves) == present

\* processXRInput: whether placeModel is called, i.e. session.inputSources
\* holds a "screen" source and frame.getPose(targetRaySpace, frameOfRef)
\* returns a pose for it.
processXRInput(present, resolves) == present /\ resolves

\* One invocation of onXRFrame for a pending frame request of session s.
\*   pose    the viewer pose is non-null
\*   vis     this.reticle.visible when the views loop is over
\*   present session.inputSources holds a "screen" input source
\*   input   frame.getPose returns a pose for that source
\*   nviews  number of views of the pose
\*   cam     camera position of the last view processed
\*   fail    the step that throws ("none": none), in view number fview
onXRFrame(s, pose, vis, present, input, nviews, cam, fail, fview) ==
  LET poseThrew == fail = "pose" \/ frameOfRef # s
      raf0      == [rafPending EXCEPT ![s] = @ - 1]
      ticked    == TickReached(poseThrew, pose, fail)
      tickThrew == ~poseThrew /\ TickThrows
      runs      == ~poseThrew /\ ~tickThrew /\ pose
      done      == IF ~runs THEN 0
                   ELSE IF fail = "none" THEN nviews
                   ELSE fview - 1
      camDone   == runs /\ (done > 0 \/ fail \in {"reticle", "input", "render"})
      inputs    == IF runs THEN done + (IF fail = "render" THEN 1 ELSE 0)
                   ELSE 0
      places    == inputs > 0 /\ processXRInput(present, input)
      calls     == IF places /\ session # 0 THEN inputs ELSE 0
      stab      == runs /\ fail = "none" /\ ShouldStabilize(vis, stabilized)
  IN
  /\ Active(s)
  /\ rafPending[s] > 0
  /\ Len(hitTests) + calls <= MaxHitTests
  /\ rafPending' = IF ticked THEN tick(raf0) ELSE raf0
  /\ camPos' = IF camDone THEN cam ELSE camPos
  /\ hitTests' = hitTests \o
                   [i \in 1..calls |-> [sess |-> session]]
  /\ UNCHANGED <<inputPresent, resolvedPos>>
  /\ stabilized' = (stabilized \/ stab)
  /\ classes' = IF stab THEN classes \cup {"stabilized"} ELSE classes
  /\ fired' = IF stab THEN [fired EXCEPT ![s] = @ + 1] ELSE fired
  /\ LET e == [NoEv EXCEPT !.name = "frame", !.sess = s,
                           !.pose = (~poseThrew /\ pose),
                           !.vis = (runs /\ fail = "none" /\ vis),
                           !.fail = IF poseThrew THEN "pose" ELSE fail,
                           !.threw = (poseThrew \/ tickThrew \/ fail # "none"),
                           !.raf = IF ticked THEN session ELSE 0]
     IN ev' = IF inputPresent /\ input /\ inputs > 0
                THEN [e EXCEPT !.views = inputs]
                ELSE e
  /\ UNCHANGED <<hasXR, support, probe, listener, pendingOk, pendingBad,
                 session, sessions, ended, awaiting, frameOfRef, renderer,
                 vrSession, modelPos, modelRot, inScene>>
  /\ UNCHANGED <<sceneVars, animVars>>

\* A frame callback in which no step throws: without a pose ...
XRFrameNoPose ==
  \E s \in Sessions :
    onXRFrame(s, FALSE, FALSE, FALSE, FALSE, 1, Origin, "none", 1)

\* ... and with one.  Whether a screen input source with a pose is there is
\* left to each frame.
XRFrame ==
  \E s \in Sessions, vis \in BOOLEAN, input \in BOOLEAN,
     nviews \in 1..MaxViews, cam \in Cams :
    onXRFrame(s, TRUE, vis, input, input, nviews, cam, "none", 1)

\* The same callback when the touches are followed: the input source is
\* there from the touch's start to its end.
XRFrameTouch ==
  \E s \in Sessions, vis \in BOOLEAN,
     input \in (IF inputPresent THEN BOOLEAN ELSE {FALSE}),
     nviews \in 1..MaxViews, cam \in Cams :
    onXRFrame(s, TRUE, vis, inputPresent, input, nviews, cam, "none", 1)

\* A frame callback in which the pose lookup throws.
XRFramePoseThrows ==
  \E s \in Sessions :
    onXRFrame(s, FALSE, FALSE, FALSE, FALSE, 1, Origin, "pose", 1)

\* A frame callback with a pose in which a later step throws.
XRFrameStepThrows ==
  \E s \in Sessions, input \in BOOLEAN, fview \in 1..MaxViews, cam \in Cams,
     fail \in FailSteps \ {"none", "pose"} :
    onXRFrame(s, TRUE, FALSE, input, input, fview, cam, fail, fview)

\* ------------------------------------------------- XR: input sources
\* The user touches the screen: the active session gains a "screen" input
\* source, which stays in session.inputSources while the touch lasts.
InputStart ==
  /\ AnyActive
  /\ ~inputPresent
  /\ inputPresent' = TRUE
  /\ ev' = [NoEv EXCEPT !.name = "inputstart"]
  /\ UNCHANGED <<hasXR, support, probe, listener, classes, pendingOk,
                 pendingBad, session, sessions, ended, awaiting, frameOfRef,
                 renderer, vrSession, rafPending, stabilized, fired, camPos,
                 modelPos, modelRot, inScene, hitTests, resolvedPos>>
  /\ UNCHANGED <<sceneVars, animVars>>

\* The touch is over: the input source leaves session.inputSources.
InputEnd ==
  /\ inputPresent
  /\ inputPresent' = FALSE
  /\ ev' = [NoEv EXCEPT !.name = "inputend"]
  /\ UNCHANGED <<hasXR, support, probe, listener, classes, pendingOk,
                 pendingBad, session, sessions, ended, awaiting, frameOfRef,
                 renderer, vrSession, rafPending, stabilized, fired, camPos,
                 modelPos, modelRot, inScene, hitTests, resolvedPos>>
  /\ UNCHANGED <<sceneVars, animVars>>

\* --------------------------------------------- XR: placement hit test
\* The orientation part of a hit matrix, which placeModel does not read.
Rot == {0}

HitMatrix == [pos : Pos, rot : Rot]

RECURSIVE SeqsUpTo(_, _)
SeqsUpTo(S, n) ==
  IF n = 0 THEN {<<>>}
  ELSE LET shorter == SeqsUpTo(S, n - 1)
       IN shorter \cup {Append(q, x) : q \in {r \in shorter : Len(r) = n - 1},
                                       x \in S}

\* What requestHitTest settles with: a rejection, or a list of hit matrices.
HitOutcomes ==
  {[ok |-> FALSE, hits |-> <<>>]} \cup
  {[ok |-> TRUE, hits |-> hs] : hs \in SeqsUpTo(HitMatrix, MaxHits)}

\* A mutant of HitsUsable: the length of the list is not tested.
HitsUsableNoLength(out) == out.ok

\* After the try/catch, hits is undefined on a rejection:  if (hits && hits.length)
HitsUsable(out) == out.ok /\ Len(out.hits) > 0

\* A mutant of NearestHit: the last entry is taken.
FarthestHit(hits) == hits[Len(hits)]

\* const hit = hits[0]
NearestHit(hits) == hits[1]

\* A mutant of setFromMatrixPosition: the model's position is not replaced.
KeepPosition(m) == modelPos

\* position.setFromMatrixPosition(hitMatrix): the translation of the matrix
setFromMatrixPosition(m) == m.pos

\* model.lookAt(camPosition.x, model.position.y, camPosition.z)
lookAt(cam, pos) == [from |-> pos, to |-> cam]

\* The rest of placeModel after its await, for the i-th hit test in flight
\* settling with out.  track: the event records the order of settling.
placeModel(i, out, track) ==
    LET usable == HitsUsable(out)
        \* hits[0] of an empty list is undefined: reading hit.hitMatrix throws
        threw  == usable /\ Len(out.hits) = 0
        placed == usable /\ ~threw
        newPos == setFromMatrixPosition(NearestHit(out.hits))
    IN
    /\ hitTests' = [j \in 1..(Len(hitTests) - 1) |->
                      IF j < i THEN hitTests[j] ELSE hitTests[j + 1]]
    /\ resolvedPos' = IF placed THEN out.hits[1].pos ELSE resolvedPos
    /\ UNCHANGED inputPresent
    /\ modelPos' = IF placed THEN newPos ELSE modelPos
    /\ inScene' = (inScene \/ placed)
    /\ modelRot' = IF placed THEN lookAt(camPos, newPos) ELSE modelRot
    /\ LET e == [NoEv EXCEPT !.name = "hits", !.sess = hitTests[i].sess,
                             !.ok = out.ok,
                             !.first = IF Len(out.hits) > 0
                                         THEN out.hits[1].pos
                                         ELSE Origin,
                             !.last = IF Len(out.hits) > 0
                                        THEN out.hits[Len(out.hits)].pos
                                        ELSE Origin,
                             !.threw = threw]
       IN ev' = IF track /\ placed
                  THEN [e EXCEPT !.idx = i,
                                 !.late = (Placed(ev) /\ i < ev.idx)]
                  ELSE e
    /\ UNCHANGED <<hasXR, support, probe, listener, classes, pendingOk,
                   pendingBad, session, sessions, ended, awaiting, frameOfRef,
                   renderer, vrSession, rafPending, stabilized, fired, camPos>>
    /\ UNCHANGED <<sceneVars, animVars>>

\* requestHitTest settles; the event records the order of settling.
HitTestSettles ==
  \E i \in 1..Len(hitTests), out \in HitOutcomes : placeModel(i, out, TRUE)

\* requestHitTest settles; the order of settling is not recorded.
HitTestSettlesAnyOrder ==
  \E i \in 1..Len(hitTests), out \in HitOutcomes : placeModel(i, out, FALSE)


\* ------------------------------------------- scene animation controller
Dims == 0..MaxDim

\* the cap of Math.min(window.devicePixelRatio, 2)
PixelRatioCap == 2

Min(a, b) == IF a <= b THEN a ELSE b

RECURSIVE GCD(_, _)
GCD(a, b) == IF b = 0 THEN a ELSE GCD(b, a % b)

\* A mutant of Div: the operands are swapped.
DivSwapped(w, h) ==
  LET g == IF GCD(w, h) = 0 THEN 1 ELSE GCD(w, h)
  IN [n |-> h \div g, d |-> w \div g]

\* The quotient w / h of two numbers, as a fraction in lowest terms.
\* A denominator of 0 is the quotient JavaScript gives for h = 0:
\* Infinity (1/0) or, for 0 / 0, NaN (0/0).
Div(w, h) ==
  LET g == IF GCD(w, h) = 0 THEN 1 ELSE GCD(w, h)
  IN [n |-> w \div g, d |-> h \div g]

\* script.js run to its end: sizes, the camera and the renderer are built
\* from the window's size.
InitScene(w, h, dpr) ==
  /\ innerWidth = w
  /\ innerHeight = h
  /\ devicePixelRatio = dpr
  /\ sizes = [width |-> w, height |-> h]
  /\ cameraAspect = Div(w, h)
  /\ rendererSize = <<w, h>>
  /\ rendererPixelRatio = Min(dpr, PixelRatioCap)

\* The user resizes or zooms the window; the resize event is dispatched later.
ViewportChange ==
  \E w \in Dims, h \in Dims, dpr \in 1..MaxDpr :
    /\ <<w, h, dpr>> # <<innerWidth, innerHeight, devicePixelRatio>>
    /\ innerWidth' = w
    /\ innerHeight' = h
    /\ devicePixelRatio' = dpr
    /\ ev' = [NoEv EXCEPT !.name = "viewport"]
    /\ UNCHANGED <<sizes, cameraAspect, rendererSize, rendererPixelRatio>>
    /\ UNCHANGED <<xrVars, animVars>>

\* A mutant of SizesAfterResize: the height is not refreshed.
SizesKeepHeight(old) == [width |-> innerWidth, height |-> old.height]

\* sizes.width = window.innerWidth; sizes.height = window.innerHeight
SizesAfterResize(old) == [width |-> innerWidth, height |-> innerHeight]

\* The window's resize listener.
Resize ==
  /\ sizes' = SizesAfterResize(sizes)
  /\ cameraAspect' = Div(sizes'.width, sizes'.height)
  /\ rendererSize' = <<sizes'.width, sizes'.height>>
  /\ rendererPixelRatio' = Min(devicePixelRatio, PixelRatioCap)
  /\ ev' = [NoEv EXCEPT !.name = "resize"]
  /\ UNCHANGED <<innerWidth, innerHeight, devicePixelRatio>>
  /\ UNCHANGED <<xrVars, animVars>>

\* --------------------------------------- scene animation: the sphere
\* JavaScript numbers are modelled as exact fractions [n, d] in lowest
\* terms with d > 0: the factors 0.001, 0.05 and 0.5 keep their values, and
\* rounding is left out.
Abs(i) == IF i < 0 THEN -i ELSE i

Frac(n, d) ==
  LET g == GCD(Abs(n), d)
  IN [n |-> n \div g, d |-> d \div g]

Num(i) == [n |-> i, d |-> 1]

FAdd(a, b) ==
  LET l == (a.d \div GCD(a.d, b.d)) * b.d
  IN Frac(a.n * (l \div a.d) + b.n * (l \div b.d), l)

FNeg(a) == [n |-> -a.n, d |-> a.d]

FSub(a, b) == FAdd(a, FNeg(b))

FMul(a, b) == Frac(a.n * b.n, a.d * b.d)

Milli     == [n |-> 1, d |-> 1000]   \* 0.001
Twentieth == [n |-> 1, d |-> 20]     \* 0.05
Half      == [n |-> 1, d |-> 2]      \* 0.5

\* script.js run to its end: the pointer offsets and the targets are 0, the
\* sphere is a new mesh, and the first tick() ran at elapsed time 0, which
\* left all of this at 0 and requested the next frame.
InitAnim ==
  anim = [windowX |-> Frac(innerWidth, 2), windowY |-> Frac(innerHeight, 2),
          mouseX |-> Num(0), mouseY |-> Num(0),
          targetX |-> Num(0), targetY |-> Num(0), scrollY |-> 0,
          rotX |-> Num(0), rotY |-> Num(0), posY |-> Num(0), posZ |-> Num(0),
          clock |-> 0, ticks |-> 0]

\* The XR page does not load script.js: it has no sphere.
InitNoAnim == anim = "none"

\* The sphere's rotation and position.
Sphere(a) == <<a.rotX, a.rotY, a.posY, a.posZ>>

\* The document's mousemove listener.
MouseMove ==
  \E cx \in 0..MaxClient, cy \in 0..MaxClient :
    /\ anim' = [anim EXCEPT !.mouseX = FSub(Num(cx), anim.windowX),
                            !.mouseY = FSub(Num(cy), anim.windowY)]
    /\ ev' = [NoEv EXCEPT !.name = "mousemove"]
    /\ UNCHANGED <<xrVars, sceneVars>>

\* A mutant of ScrollPosition: the factor is left out.
ScrollPositionRaw(y) == Num(y)

\* window.scrollY * 0.001
ScrollPosition(y) == FMul(Num(y), Milli)

\* The user scrolls and the window's scroll listener runs.
Scroll ==
  \E y \in 0..MaxScroll :
    /\ y # anim.scrollY
    /\ anim' = [anim EXCEPT !.scrollY = y, !.posY = ScrollPosition(y)]
    /\ ev' = [NoEv EXCEPT !.name = "scroll"]
    /\ UNCHANGED <<xrVars, sceneVars>>

\* A mutant of Ease: the value jumps to the target.
EaseSnap(cur, target, k) == target

\* cur += k * (target - cur)
Ease(cur, target, k) == FAdd(cur, FMul(k, FSub(target, cur)))

\* What tick makes of the targets and of the sphere's rotation.x,
\* rotation.y and position.z when the clock reads t, the pointer offsets
\* are mx and my, and rotation.x and position.z were rx and pz.
TickSphere(rx, pz, t, mx, my) ==
  LET tx  == FMul(mx, Milli)
      ty  == FMul(my, Milli)
      ry0 == FMul(Half, Num(t))
      rx1 == Ease(rx, ty, Twentieth)
      ry1 == Ease(ry0, tx, Half)
      pz1 == FAdd(pz, FMul(FNeg(Twentieth), FSub(ty, rx1)))
  IN [targetX |-> tx, targetY |-> ty, rotX |-> rx1, rotY |-> ry1, posZ |-> pz1]

\* tick: a requested animation frame runs; it requests the next one.
Tick ==
  \E t \in anim.clock..MaxTime :
    LET r == TickSphere(anim.rotX, anim.posZ, t, anim.mouseX, anim.mouseY) IN
    /\ anim.ticks < MaxTicks
    /\ anim' = [anim EXCEPT !.ticks = @ + 1, !.clock = t,
                            !.targetX = r.targetX, !.targetY = r.targetY,
                            !.rotX = r.rotX, !.rotY = r.rotY,
                            !.posZ = r.posZ]
    /\ ev' = [NoEv EXCEPT !.name = "tick"]
    /\ UNCHANGED <<xrVars, sceneVars>>

\* ------------------------------------------------------- specifications
Supports == {"yes", "no", "error"}

\* The XR session controller after new App(); the scene is left alone.
Init ==
  /\ \E hx \in BOOLEAN, sup \in Supports : InitApp(hx, sup)
  /\ InitScene(1, 1, 1)
  /\ InitNoAnim
  /\ ev = NoEv

Next ==
  \/ ProbeSettles
  \/ onEnterAR
  \/ SessionGranted
  \/ SessionDenied
  \/ SessionRefused
  \/ SessionEnd
  \/ RefSpaceResolved
  \/ RefSpaceRejected
  \/ XRFrameNoPose
  \/ XRFrame
  \/ HitTestSettles

Spec == Init /\ [][Next]_vars

\* The same controller on a platform whose frame steps may throw; the order
\* in which hit tests settle is not recorded.
NextFault ==
  \/ ProbeSettles
  \/ onEnterAR
  \/ SessionGranted
  \/ SessionDenied
  \/ SessionRefused
  \/ SessionEnd
  \/ RefSpaceResolved
  \/ RefSpaceRejected
  \/ XRFrameNoPose
  \/ XRFrame
  \/ XRFramePoseThrows
  \/ XRFrameStepThrows
  \/ HitTestSettlesAnyOrder

SpecFault == Init /\ [][NextFault]_vars

\* The controller on a device that supports immersive AR, with the touches
\* on the screen followed from their start to their end.
InitTouch ==
  /\ InitApp(TRUE, "yes")
  /\ InitScene(1, 1, 1)
  /\ InitNoAnim
  /\ ev = NoEv

NextTouch ==
  \/ ProbeSettles
  \/ onEnterAR
  \/ SessionGranted
  \/ SessionDenied
  \/ SessionRefused
  \/ SessionEnd
  \/ RefSpaceResolved
  \/ RefSpaceRejected
  \/ XRFrameNoPose
  \/ XRFrameTouch
  \/ InputStart
  \/ InputEnd
  \/ HitTestSettlesAnyOrder

SpecTouch == InitTouch /\ [][NextTouch]_vars

\* The scene animation controller after script.js has run; no App exists.
InitSceneOnly ==
  /\ InitApp(FALSE, "no")
  /\ \E w \in Dims, h \in Dims, dpr \in 1..MaxDpr : InitScene(w, h, dpr)
  /\ InitAnim
  /\ ev = NoEv

NextScene ==
  \/ ViewportChange
  \/ Resize

SpecScene == InitSceneOnly /\ [][NextScene]_vars

\* The sphere's animation after script.js has run in a window of 2 by 2.
InitAnimOnly ==
  /\ InitApp(FALSE, "no")
  /\ InitScene(2, 2, 1)
  /\ InitAnim
  /\ ev = NoEv

NextAnim ==
  \/ MouseMove
  \/ Scroll
  \/ Tick

SpecAnim == InitAnimOnly /\ [][NextAnim]_vars

\* ================================================================ claims

\* C1: whenever onXRFrame ran with a null viewer pose, it has requested the
\* next frame on its session by the time it returns, so the session has a
\* pending frame request.
C1_NoPoseRearms ==
  (ev.name = "frame" /\ ~ev.pose /\ ~ev.threw) =>
    (ev.raf = ev.sess /\ rafPending[ev.sess] >= 1)

\* C1 witness: a frame without a pose has run and a request is pending.
C1_Witness ==
  ev.name = "frame" /\ ~ev.pose /\ ~ev.threw /\ rafPending[ev.sess] = 1

\* C2: per session the stabilized transition runs at most once; it runs in
\* every frame that has a pose and sees the reticle visible unless it ran
\* before, and only in such a frame; the 'stabilized' class is removed by
\* nothing but the session's end; so each session, a later one included,
\* has it exactly once, in its first frame with a visible reticle.
C2_StabilizedOnce ==
  [][ /\ \A s \in Sessions : fired'[s] <= 1
      /\ (ev'.name = "frame" /\ ev'.vis) =>
            (stabilized' /\ "stabilized" \in classes' /\ fired'[ev'.sess] = 1)
      /\ \A s \in Sessions :
            fired'[s] # fired[s] => (ev'.name = "frame" /\ ev'.sess = s /\ ev'.vis)
      /\ ("stabilized" \in classes /\ ev'.name # "end") =>
            (stabilized' /\ "stabilized" \in classes')
    ]_vars

\* C2 witness: the transition ran in session 1 and again in session 2.
C2_Witness ==
  fired[1] = 1 /\ fired[2] = 1 /\ "stabilized" \in classes /\ session = 2

\* C3: when a placement hit test resolved with a non-empty list, the model's
\* position is the position of the entry at index 0 and the model is in the
\* scene, whatever the later entries are.
C3_NearestHit ==
  (ev.name = "hits" /\ ev.ok /\ ev.first # Origin) =>
    (modelPos = ev.first /\ inScene)

\* C3 witness: a list whose last entry differs from its first was placed.
C3_Witness ==
  /\ ev.name = "hits" /\ ev.ok /\ ev.first # Origin /\ ev.last # ev.first
  /\ modelPos = ev.first /\ inScene

\* C4: right after the session 'end' handler neither 'ar' nor 'stabilized'
\* is set and no renderer is bound to the ended session.
C4_EndClears ==
  ev.name = "end" =>
    /\ "ar" \notin classes
    /\ "stabilized" \notin classes
    /\ \A r \in Sessions : vrSession[r] # ev.sess

\* C4 witness: a stabilized session has ended.
C4_Witness ==
  ev.name = "end" /\ {"ar", "stabilized"} \subseteq ev.pre /\ "ar" \notin classes

\* C5 (as claimed): once the platform is known to lack AR support (the API
\* is missing, or the probe was rejected or answered no), the page is
\* 'unsupported', no click listener is registered and no session is requested.
C5_ProbeStops ==
  (~hasXR \/ probe \in {"false", "rejected"}) =>
    /\ "unsupported" \in classes
    /\ ~listener
    /\ pendingOk = 0 /\ pendingBad = 0 /\ sessions = 0

\* C6: a placement hit test that rejects or resolves with an empty list
\* leaves the model's position, orientation and scene membership and the
\* pending frame requests as they were, and placeModel does not throw.
C6_HitFailureHarmless ==
  [][ (ev'.name = "hits" /\ (~ev'.ok \/ ev'.first = Origin)) =>
        /\ modelPos' = modelPos
        /\ modelRot' = modelRot
        /\ inScene' = inScene
        /\ rafPending' = rafPending
        /\ ~ev'.threw
    ]_vars

\* C6 witness: a hit test was rejected while a placed model and a frame
\* request existed.
C6_Witness ==
  /\ ev.name = "hits" /\ ~ev.ok
  /\ inScene /\ modelPos # Origin
  /\ session # 0 /\ rafPending[IF session = 0 THEN 1 ELSE session] >= 1

\* C7: right after the resize listener the camera's aspect is the window's
\* width over its height and the renderer has the window's size.
C7_ResizeSync ==
  ev.name = "resize" =>
    /\ cameraAspect.n * innerHeight = cameraAspect.d * innerWidth
    /\ (cameraAspect.n = 0) = (innerWidth = 0)
    /\ (cameraAspect.d = 0) = (innerHeight = 0)
    /\ rendererSize = <<innerWidth, innerHeight>>

\* C7 witness: a resize to a window that is neither square nor of the
\* initial size.
C7_Witness ==
  /\ ev.name = "resize"
  /\ innerWidth = 3 /\ innerHeight = 2
  /\ cameraAspect = [n |-> 3, d |-> 2]
  /\ rendererSize = <<3, 2>>

\* C8 (as claimed): once 'unsupported' is set it stays set, and 'ar' is
\* never added afterwards.
C8_UnsupportedFinal ==
  [][ "unsupported" \in classes =>
        /\ "unsupported" \in classes'
        /\ ("ar" \in classes' => "ar" \in classes)
    ]_vars

\* C9 (as claimed): every invocation of onXRFrame, whichever of its steps
\* throws, has requested the next frame on its session.
C9_RearmFirst ==
  ev.name = "frame" => (ev.raf = ev.sess /\ rafPending[ev.sess] >= 1)

\* C9 (amended): every invocation of onXRFrame in which the pose lookup
\* returns has requested the next frame on its session, whichever later
\* step throws.
C9_RearmAfterPose ==
  (ev.name = "frame" /\ ev.fail # "pose") =>
    (ev.raf = ev.sess /\ rafPending[ev.sess] >= 1)

\* C9 witness: the rendering threw and the next frame is requested.
C9_Witness ==
  ev.name = "frame" /\ ev.fail = "render" /\ rafPending[ev.sess] >= 1

\* C10 (as claimed): the controller calls requestAnimationFrame on no
\* session that has ended.
C10_NoRafAfterEnd ==
  ev.raf # 0 => ev.raf \notin ended

\* C14 (as claimed): the controller holds a session handle exactly while
\* that session is running; after the 'end' handler the handle is null.
C14_HandleCleared ==
  /\ (session # 0) = AnyActive
  /\ ev.name = "end" => session = 0

\* C17 (as claimed): 'ar' and 'unsupported' are never both set.
C17_ArExcludesUnsupported ==
  ~({"ar", "unsupported"} \subseteq classes)

\* C18: the 'stabilized' class is set only while 'ar' is set, and
\* this.stabilized is true only while a session is running.
C18_StabilizedImpliesAr ==
  /\ "stabilized" \in classes => "ar" \in classes
  /\ stabilized => AnyActive

\* C18 witness: a second session, started after the first one ended
\* stabilized, is stabilized.
C18_Witness ==
  /\ "stabilized" \in classes /\ stabilized /\ "ar" \in classes
  /\ session = 2 /\ fired[1] = 1

\* C19 (as claimed): a placement hit test that settles after the end of the
\* session it was issued on changes neither the model's position nor its
\* orientation nor its scene membership, and no hit test in flight was
\* issued on a session that had ended.
C19_NoPlacementAfterEnd ==
  [][ /\ (ev'.name = "hits" /\ ev'.sess \in ended') =>
            /\ modelPos' = modelPos
            /\ modelRot' = modelRot
            /\ inScene' = inScene
      /\ \A i \in (Len(hitTests) + 1)..Len(hitTests') :
            hitTests'[i].sess \notin ended'
    ]_vars

\* C20 (as claimed): no session ever has more than one pending frame request.
C20_SingleLoop ==
  \A s \in Sessions : rafPending[s] <= 1


\* C11 (as claimed): the position is that of the hit test issued last: a hit
\* test that settles after one issued later than it has written the model's
\* position leaves the position as it is.
C11_LastIssuedWins ==
  [][(ev'.name = "hits" /\ ev'.late) => modelPos' = modelPos]_vars

\* C11 (amended): the model's position is the first hit of the hit test that
\* settled last with a non-empty list, whenever that one was issued: a hit
\* test that settles with hits after one issued later overwrites it.
C11_LastSettledWins ==
  /\ modelPos = resolvedPos
  /\ inScene = (resolvedPos # Origin)
  /\ (ev.name = "hits" /\ ev.late /\ Placed(ev)) => modelPos = ev.first

\* C11 witness: of two hit tests in flight the later one wrote the position,
\* then the earlier one settled with hits and wrote it again.
C11_Witness ==
  /\ ev.name = "hits" /\ ev.late /\ Placed(ev)
  /\ modelPos = ev.first /\ inScene
  /\ hitTests = <<>>

\* C12 (as claimed): the model's position is written at most once between
\* the starts of two frame callbacks: a hit test that wrote it is not
\* followed, with no frame callback in between, by another that writes it.
C12_OneWritePerFrame == [][Placed(ev) => ~Placed(ev')]_vars

\* C13 (as claimed): an input source causes one placement hit test however
\* long it stays: the frame callback that follows one in which the source
\* caused a hit test, the touch still lasting, issues none.
C13_OneShotPerInput ==
  [][(ev.name = "frame" /\ ev.views > 0 /\ ev'.name = "frame")
       => Len(hitTests') = Len(hitTests)]_vars

\* C13 (amended): a frame callback issues one placement hit test for each
\* view it processes while a screen input source is there with a pose, in
\* every frame of the touch, and none otherwise.
C13_OnePerViewAndFrame ==
  [][ev'.name = "frame" =>
       Len(hitTests') - Len(hitTests) = ev'.views]_vars

\* C13 witness: during one touch, a frame callback of one view has issued a
\* hit test while an earlier one is still in flight.
C13_Witness ==
  /\ ev.name = "frame" /\ ev.views = 1
  /\ inputPresent
  /\ Len(hitTests) = 2

\* C15 (as claimed): the pointer-move and scroll handlers leave the sphere's
\* rotation and position as they are.
C15_HandlersKeepSphere ==
  [][ev'.name \in {"mousemove", "scroll"} => Sphere(anim') = Sphere(anim)]_vars

\* C15 (amended): the pointer-move handler changes only the pointer offsets,
\* from which the next per-frame update computes the targets; the scroll
\* handler writes sphere.position.y = window.scrollY * 0.001 itself and
\* leaves the rotation, position.z, the offsets and the targets alone.
C15_ScrollWritesPosition ==
  [][/\ ev'.name = "mousemove" =>
          anim' = [anim EXCEPT !.mouseX = anim'.mouseX,
                               !.mouseY = anim'.mouseY]
     /\ ev'.name = "scroll" =>
          /\ anim'.posY.n * 1000 = anim'.scrollY * anim'.posY.d
          /\ anim' = [anim EXCEPT !.scrollY = anim'.scrollY,
                                  !.posY = anim'.posY]
    ]_vars

\* C15 witness: a scroll to scrollY = 1 has set position.y to 0.001 after a
\* per-frame update had turned the sphere.
C15_Witness ==
  /\ ev.name = "scroll" /\ anim.scrollY = 1
  /\ anim.posY = [n |-> 1, d |-> 1000]
  /\ anim.rotX # Num(0)

\* C16 (as claimed): the sphere's rotation and position.z after a per-frame
\* update depend on the elapsed time and the latest pointer targets alone:
\* they are what the first update after load gives for the same elapsed
\* time and the same pointer offsets, whatever updates came before.
C16_PureTick ==
  ev.name = "tick" =>
    LET r == TickSphere(Num(0), Num(0), anim.clock, anim.mouseX, anim.mouseY)
    IN /\ anim.rotX = r.rotX
       /\ anim.rotY = r.rotY
       /\ anim.posZ = r.posZ

\* C16 (amended): after a per-frame update at elapsed time t, rotation.y is
\* t/4 + targetX/2, a function of the elapsed time and the latest target;
\* rotation.x is (19 * its former value + targetY) / 20 and position.z its
\* former value - 19/400 * (targetY - the former rotation.x), so both carry
\* the history of the earlier updates; position.y is left alone.
C16_TickEases ==
  [][ev'.name = "tick" =>
       LET tx == anim'.targetX
           ty == anim'.targetY
       IN /\ tx = FMul(anim.mouseX, Milli)
          /\ ty = FMul(anim.mouseY, Milli)
          /\ anim'.rotY = FAdd(Frac(anim'.clock, 4), FMul(Half, tx))
          /\ anim'.rotX = FMul(Frac(1, 20), FAdd(FMul(Num(19), anim.rotX), ty))
          /\ anim'.posZ =
               FSub(anim.posZ, FMul(Frac(19, 400), FSub(ty, anim.rotX)))
          /\ anim'.posY = anim.posY
    ]_vars

\* C16 witness: a second per-frame update has run and rotation.x is not
\* what the first update after load gives for the same time and offsets.
C16_Witness ==
  /\ ev.name = "tick" /\ anim.ticks = 2
  /\ anim.rotX #
       TickSphere(Num(0), Num(0), anim.clock, anim.mouseX, anim.mouseY).rotX
  /\ anim.rotY = FAdd(Frac(anim.clock, 4), FMul(Half, anim.targetX))
====
